---- MODULE Spec2Model ----
(***************************************************************************)
(* State-machine model of the task list manager: TodoModel (the task list  *)
(* and its id counter), StorageService (JSON over a key-value store) and   *)
(* the browser store they share.                                           *)
(*                                                                         *)
(* A JavaScript string is a sequence of one-character strings; the text a  *)
(* save writes to the store is a sequence of JSON tokens.                  *)
(*                                                                         *)
(* Specifications:                                                         *)
(*   Spec     one page session over a store that takes every write         *)
(*   Restarts page sessions one after the other over such a store          *)
(*   Reloads  the same over a store that may refuse writes                 *)
(*   Callers  one TodoModel called with any value and any subscribers      *)
(*   Imports  one page session with file imports                           *)
(*   Services StorageService instances called directly                     *)
(*   Intents  page sessions driven through TodoApp's handlers              *)
(*   Tabs     two tabs on one store, used in turn                          *)
(*   Editing  one page session with a todo-item edited in place            *)
(*                                                                         *)
(* todos, nextId, listeners : the fields of the TodoModel in use           *)
(* store                    : localStorage, one cell per prefixed key      *)
(* faults                   : setItem calls the store may still refuse     *)
(* clock                    : the reading new Date() gives next            *)
(* fromEmpty, issued, last, twice : history, read only by the properties:  *)
(*   whether the model in use was constructed over an empty store, the ids *)
(*   it issued, the last call with the state it started from, and the list *)
(*   before the first of two toggleComplete (armed) or deleteTodo (again)  *)
(*   calls in a row on one id                                              *)
(* wrote, call, latest : history too: which setItem calls of the last      *)
(*   TodoModel.save returned, the last call made outside the TodoModel (a  *)
(*   StorageService method, or TodoApp's import) with the store it found,  *)
(*   and for every key the value last handed to a save                     *)
(* view  : TodoApp.todos, the list the components render                   *)
(* other : the TodoModel and TodoApp.todos of a second tab on the store    *)
(* todoItem : a todo-item element: its place in the rendered list,         *)
(*         isEditing, editValue, and (history) the handler that ran last   *)
(*         and whether the element was in edit mode when it started        *)
(* seen  : history: the model and the store as the subscribers found them  *)
(*         when the last call invoked them                                 *)
(***************************************************************************)
EXTENDS Integers, Sequences, FiniteSets, TLC

VARIABLES todos, nextId, listeners, store, faults, clock, fromEmpty, issued, last, twice,
          wrote, call, latest, seen, view, other, todoItem

vars == <<todos, nextId, listeners, store, faults, clock, fromEmpty, issued, last, twice,
          wrote, call, latest, seen, view, other, todoItem>>

----------------------------------------------------------------------------
(* Bounds of the model *)

MaxTextLen == 2     \* longest text handed to addTodo / updateTodo
MaxTodos == 2       \* longest task list
MaxId == 2          \* the last id addTodo may issue
MaxFailures == 1    \* setItem calls that throw in one run
MaxListeners == 3   \* most subscriptions of one TodoModel
MaxSwitches == 2    \* most turns from one tab to the other

----------------------------------------------------------------------------
(* Strings *)

Chars == {"a", " "}

Whitespace == {" "}

RECURSIVE StringsUpTo(_)
StringsUpTo(n) ==
    IF n = 0 THEN {<<>>}
    ELSE LET shorter == StringsUpTo(n - 1)
         IN  shorter \cup {<<c>> \o s : c \in Chars, s \in {x \in shorter : Len(x) = n - 1}}

Texts == StringsUpTo(MaxTextLen)

RECURSIVE trimStart(_)
trimStart(s) ==
    IF s # <<>> /\ Head(s) \in Whitespace THEN trimStart(Tail(s)) ELSE s

RECURSIVE trimEnd(_)
trimEnd(s) ==
    IF s # <<>> /\ s[Len(s)] \in Whitespace THEN trimEnd(SubSeq(s, 1, Len(s) - 1)) ELSE s

\* trimStart alone: trailing whitespace stays
trimLeading(s) == trimStart(s)

\* String.prototype.trim
trim(s) == trimEnd(trimStart(s))

\* an argument that is no string but truthy, such as the number 42: it has no
\* trim method
NumberValue == <<"42">>

\* null, passed where a string is expected
NullValue == <<"null">>

\* what a caller may pass as text: the strings and the two values above
Values == Texts \cup {NumberValue, NullValue}

\* typeof text === 'string'
isString(text) == \A i \in DOMAIN text : text[i] \in Chars

\* !text
falsy(text) == text = <<>> \/ text = NullValue

\* text.trim() throws TypeError: text.trim is not a function
trimThrows(text) == ~falsy(text) /\ ~isString(text)

\* the guard without its trim test
isEmptyString(text) == text = <<>>

\* the guard of addTodo and updateTodo: !text || text.trim() === ''
isBlank(text) == text = <<>> \/ trim(text) = <<>>

----------------------------------------------------------------------------
(* JSON *)

Digit(d) == CASE d = 0 -> "0" [] d = 1 -> "1" [] d = 2 -> "2" [] d = 3 -> "3"
              [] d = 4 -> "4" [] d = 5 -> "5" [] d = 6 -> "6" [] d = 7 -> "7"
              [] d = 8 -> "8" [] d = 9 -> "9"

DigitValue(c) == CASE c = "0" -> 0 [] c = "1" -> 1 [] c = "2" -> 2 [] c = "3" -> 3
                   [] c = "4" -> 4 [] c = "5" -> 5 [] c = "6" -> 6 [] c = "7" -> 7
                   [] c = "8" -> 8 [] c = "9" -> 9

RECURSIVE stringifyNumber(_)
stringifyNumber(n) ==
    IF n < 10 THEN <<Digit(n)>> ELSE stringifyNumber(n \div 10) \o <<Digit(n % 10)>>

RECURSIVE parseNumber(_)
parseNumber(ds) ==
    IF Len(ds) = 1 THEN DigitValue(ds[1])
    ELSE 10 * parseNumber(SubSeq(ds, 1, Len(ds) - 1)) + DigitValue(ds[Len(ds)])

stringifyString(s) == <<"\"">> \o s \o <<"\"">>

stringifyBoolean(b) == IF b THEN <<"true">> ELSE <<"false">>

stringifyTodo(t) ==
    <<"{", "id:">> \o stringifyNumber(t.id)
      \o <<",", "text:">> \o stringifyString(t.text)
      \o <<",", "completed:">> \o stringifyBoolean(t.completed)
      \o <<",", "createdAt:">> \o stringifyString(t.createdAt)
      \o <<"}">>

RECURSIVE stringifyElements(_)
stringifyElements(ts) ==
    IF ts = <<>> THEN <<>>
    ELSE IF Len(ts) = 1 THEN stringifyTodo(ts[1])
    ELSE stringifyTodo(ts[1]) \o <<",">> \o stringifyElements(Tail(ts))

\* JSON.stringify of the task array
stringifyTodos(ts) == <<"[">> \o stringifyElements(ts) \o <<"]">>

\* the first position >= from of token tok in toks (0 when there is none)
RECURSIVE indexOf(_, _, _)
indexOf(toks, tok, from) ==
    IF from > Len(toks) THEN 0
    ELSE IF toks[from] = tok THEN from
    ELSE indexOf(toks, tok, from + 1)

\* one object of the array, toks[1] = "{" and toks[Len(toks)] = "}"
parseTodo(toks) ==
    LET idAt   == indexOf(toks, "id:", 1)
        idEnd  == indexOf(toks, ",", idAt)
        txAt   == indexOf(toks, "text:", idEnd)
        txEnd  == indexOf(toks, "\"", txAt + 2)
        coAt   == indexOf(toks, "completed:", txEnd)
        crAt   == indexOf(toks, "createdAt:", coAt)
        crEnd  == indexOf(toks, "\"", crAt + 2)
    IN  [id        |-> parseNumber(SubSeq(toks, idAt + 1, idEnd - 1)),
         text      |-> SubSeq(toks, txAt + 2, txEnd - 1),
         completed |-> toks[coAt + 1] = "true",
         createdAt |-> SubSeq(toks, crAt + 2, crEnd - 1)]

RECURSIVE parseElements(_, _)
parseElements(toks, from) ==
    LET open  == indexOf(toks, "{", from)
        close == indexOf(toks, "}", from)
    IN  IF open = 0 THEN <<>>
        ELSE <<parseTodo(SubSeq(toks, open, close))>> \o parseElements(toks, close + 1)

\* JSON.parse of a stored task array
parseTodos(toks) == parseElements(toks, 1)

\* JSON.parse of what a save wrote: an array or a number
parseJSON(toks) == IF toks[1] = "[" THEN parseTodos(toks) ELSE parseNumber(toks)

\* how often tok occurs in toks
RECURSIVE count(_, _)
count(toks, tok) ==
    IF toks = <<>> THEN 0
    ELSE (IF Head(toks) = tok THEN 1 ELSE 0) + count(Tail(toks), tok)

\* JSON.parse returns rather than throws SyntaxError: the text is a number,
\* or an array whose brackets and braces close
parses(toks) ==
    /\ toks # <<>>
    /\ \/ \A i \in DOMAIN toks : toks[i] \in {"0", "1", "2", "3", "4", "5", "6", "7", "8", "9"}
       \/ /\ toks[1] = "["
          /\ toks[Len(toks)] = "]"
          /\ count(toks, "{") = count(toks, "}")

----------------------------------------------------------------------------
(* StorageService over the browser store *)

prefix == "todo-"

ItemsKey == <<prefix, "items">>

NextIdKey == <<prefix, "nextId">>

StoreKeys == {ItemsKey, NextIdKey}

\* a key of the store is the sequence of the pieces it is written from, so
\* that prefix + key is \o; <<>> is the key ''
AllKeys == StoreKeys \cup {<<>>}

\* getItem of a key that was never set returns null
Null == [present |-> FALSE, text |-> <<>>]

EmptyStore == [k \in AllKeys |-> Null]

\* key.startsWith(prefix)
startsWith(key, pre) == Len(pre) <= Len(key) /\ SubSeq(key, 1, Len(pre)) = pre

\* storage.setItem(key, text) when it does not throw
setItem(st, key, text) == [st EXCEPT ![key] = [present |-> TRUE, text |-> text]]

\* storage.removeItem(key)
removeItem(st, key) == [st EXCEPT ![key] = Null]

\* a save that leaves a key it finds set as it is
SaveAsOnce(pre, st, key, text, ok) ==
    IF ok /\ ~st[pre \o key].present THEN setItem(st, pre \o key, text) ELSE st

\* save of the StorageService with prefix pre: setItem either stores the text
\* or throws, and the catch swallows the error
SaveAs(pre, st, key, text, ok) ==
    IF ok THEN setItem(st, pre \o key, text) ELSE st

\* load of the StorageService with prefix pre:
\* try { item ? JSON.parse(item) : defaultValue } catch { defaultValue }
LoadAs(pre, st, key, defaultValue) ==
    LET item == st[pre \o key]
    IN  IF item.present /\ item.text # <<>> /\ parses(item.text)
        THEN parseJSON(item.text)
        ELSE defaultValue

\* remove of the StorageService with prefix pre
RemoveAs(pre, st, key) == removeItem(st, pre \o key)

RECURSIVE removeEach(_, _)
removeEach(st, keys) ==
    IF keys = <<>> THEN st ELSE removeEach(removeItem(st, Head(keys)), Tail(keys))

\* clear of the StorageService with prefix pre; keys is storage.key(0),
\* storage.key(1), ... : the loop collects every key that is truthy and
\* starts with the prefix, then removes what it collected
ClearAs(pre, st, keys) ==
    removeEach(st, SelectSeq(keys, LAMBDA key : key # <<>> /\ startsWith(key, pre)))

\* a failed write that also drops the key
StorageSaveDropping(st, key, text, ok) ==
    IF ok THEN SaveAs(<<prefix>>, st, <<key>>, text, ok)
    ELSE removeItem(st, <<prefix, key>>)

\* StorageService.save with the default prefix, as TodoModel calls it
StorageSave(st, key, text, ok) == SaveAs(<<prefix>>, st, <<key>>, text, ok)

\* a load that always gives the default
StorageLoadDefault(st, key, defaultValue) == defaultValue

\* StorageService.load with the default prefix, as TodoModel calls it
StorageLoad(st, key, defaultValue) == LoadAs(<<prefix>>, st, <<key>>, defaultValue)

----------------------------------------------------------------------------
(* TodoModel *)

Ids == 1..MaxId

\* new Date().toISOString()
toISOString(now) == <<"T">> \o stringifyNumber(now)

\* nextId read and left as it is
noIncrement(n) == [value |-> n, next |-> n]

\* this.nextId++ : the value it yields and the value it leaves in nextId
postIncrement(n) == [value |-> n, next |-> n + 1]

\* the object literal with text instead of text.trim()
newTodoUntrimmed(id, text, now) ==
    [id |-> id, text |-> text, completed |-> FALSE, createdAt |-> toISOString(now)]

\* the object literal of addTodo
newTodo(id, text, now) ==
    [id |-> id, text |-> trim(text), completed |-> FALSE, createdAt |-> toISOString(now)]

\* todos.find(t => t.id === id): the position of the first match, 0 for undefined
RECURSIVE findFrom(_, _, _)
findFrom(ts, id, from) ==
    IF from > Len(ts) THEN 0
    ELSE IF ts[from].id = id THEN from
    ELSE findFrom(ts, id, from + 1)

find(ts, id) == findFrom(ts, id, 1)

\* a toggle that also moves the task to the end of the list
toggledToEnd(ts, i) ==
    SubSeq(ts, 1, i - 1) \o SubSeq(ts, i + 1, Len(ts))
        \o <<[ts[i] EXCEPT !.completed = ~ts[i].completed]>>

\* todo.completed = true
completedAt(ts, i) == [ts EXCEPT ![i].completed = TRUE]

\* todo.completed = !todo.completed
toggled(ts, i) == [ts EXCEPT ![i].completed = ~ts[i].completed]

\* todo.text = newText
retextedUntrimmed(ts, i, newText) == [ts EXCEPT ![i].text = newText]

\* an edit that also marks the task active again
retextedActive(ts, i, newText) ==
    [ts EXCEPT ![i].text = trim(newText), ![i].completed = FALSE]

\* todo.text = newText.trim()
retexted(ts, i, newText) == [ts EXCEPT ![i].text = trim(newText)]

\* todos.splice(todos.findIndex(t => t.id === id), 1): an index of -1 takes
\* the last task
withoutIdSplice(ts, id) ==
    IF find(ts, id) # 0
    THEN SubSeq(ts, 1, find(ts, id) - 1) \o SubSeq(ts, find(ts, id) + 1, Len(ts))
    ELSE SubSeq(ts, 1, Len(ts) - 1)

\* todos.filter(t => t.id !== id)
withoutId(ts, id) == SelectSeq(ts, LAMBDA t : t.id # id)

\* the list without its first completed task only
withoutFirstCompleted(ts) ==
    LET done == {i \in 1..Len(ts) : ts[i].completed}
    IN  IF done = {} THEN ts
        ELSE LET k == CHOOSE i \in done : \A j \in done : i <= j
             IN  SubSeq(ts, 1, k - 1) \o SubSeq(ts, k + 1, Len(ts))

\* todos.filter(t => !t.completed)
withoutCompleted(ts) == SelectSeq(ts, LAMBDA t : ~t.completed)

\* get activeCount
activeCountOf(ts) == Len(SelectSeq(ts, LAMBDA t : ~t.completed))

\* todos.length
completedCountOfAll(ts) == Len(ts)

\* get completedCount
completedCountOf(ts) == Len(SelectSeq(ts, LAMBDA t : t.completed))

activeCount == activeCountOf(todos)

completedCount == completedCountOf(todos)

\* a save that writes the list and forgets the counter
ModelSaveItemsOnly(st, ts, nid, ok1, ok2) ==
    StorageSave(st, "items", stringifyTodos(ts), ok1)

\* a save that leaves a list some instance already stored
ModelSaveKeeping(st, ts, nid, ok1, ok2) ==
    IF st[ItemsKey].present
    THEN st
    ELSE StorageSave(StorageSave(st, "items", stringifyTodos(ts), ok1),
                     "nextId", stringifyNumber(nid), ok2)

\* TodoModel.save: items first, then nextId
ModelSave(st, ts, nid, ok1, ok2) ==
    StorageSave(StorageSave(st, "items", stringifyTodos(ts), ok1),
                "nextId", stringifyNumber(nid), ok2)

\* nothing is stored under the key
Unwritten == [kind |-> "none", value |-> <<>>, by |-> <<>>, asked |-> "none", handed |-> <<>>]

\* the store holds text under the key that no save put there
OtherWritten ==
    [kind |-> "other", value |-> <<>>, by |-> <<>>, asked |-> "none", handed |-> <<>>]

\* what is known of a key after a save by the StorageService with prefix pre:
\* the value stored last and who stored it, the value handed to the last
\* save of the key and whether the store took or refused it
Noted(lt, pre, key, value, ok) ==
    [lt EXCEPT ![key] =
        IF ok THEN [kind |-> "saved", value |-> value, by |-> pre,
                    asked |-> "taken", handed |-> value]
        ELSE [lt[key] EXCEPT !.asked = "refused", !.handed = value]]

\* the setItem calls of one save that throw
Thrown(ok1, ok2) == (IF ok1 THEN 0 ELSE 1) + (IF ok2 THEN 0 ELSE 1)

\* whether a setItem call returns (TRUE) or throws (FALSE)
Outcomes == IF faults > 0 THEN BOOLEAN ELSE {TRUE}

\* the store after TodoModel.save, some of whose writes may throw
Saved(ts, nid) ==
    \E ok1, ok2 \in Outcomes :
        /\ Thrown(ok1, ok2) <= faults
        /\ faults' = faults - Thrown(ok1, ok2)
        /\ store' = ModelSave(store, ts, nid, ok1, ok2)
        /\ wrote' = <<ok1, ok2>>
        /\ latest' = Noted(Noted(latest, <<prefix>>, ItemsKey, ts, ok1),
                          <<prefix>>, NextIdKey, nid, ok2)

\* no save in this call
NotSaved == wrote' = <<>> /\ latest' = latest

\* TodoModel.subscribe: listeners.push(listener)
subscribe(ls, listener) == Append(ls, listener)

\* the callback TodoApp's constructor subscribes
AppListener == "app"

\* the callbacks a caller may subscribe: one that returns and one that throws
Listeners == {"returns", "throws"}

Throwing == {"throws"}

\* listeners kept in a Set: a callback subscribed twice is called once
RECURSIVE notifyDistinct(_)
notifyDistinct(ls) ==
    IF ls = <<>> THEN <<>>
    ELSE LET front == notifyDistinct(SubSeq(ls, 1, Len(ls) - 1))
         IN  IF \E i \in DOMAIN front : front[i] = ls[Len(ls)]
             THEN front
             ELSE Append(front, ls[Len(ls)])

\* the listeners forEach calls, in subscription order: all of them, or those
\* up to the first that throws
notify(ls) ==
    LET thrown == {i \in DOMAIN ls : ls[i] \in Throwing}
    IN  IF thrown = {} THEN ls
        ELSE SubSeq(ls, 1, CHOOSE i \in thrown : \A j \in thrown : i <= j)

\* whether the exception of a listener leaves notify
notifyThrows(calls) == calls # <<>> /\ calls[Len(calls)] \in Throwing

\* what the last operation was called with, the state it started from, and
\* whether it raised an error to its caller
Called(op, id, text, saves, calls) ==
    [op |-> op, id |-> id, text |-> text, todos |-> todos, nextId |-> nextId,
     store |-> store, saves |-> saves, calls |-> calls,
     raised |-> notifyThrows(calls)]

\* a call that threw before it changed anything
Threw(op, id, text) == [Called(op, id, text, 0, <<>>) EXCEPT !.raised = TRUE]

\* no call outside the TodoModel yet
NoCall == [op |-> "none", pre |-> <<>>, key |-> <<>>, value |-> <<>>, result |-> <<>>,
           ok |-> TRUE, store |-> EmptyStore]

\* the last call invoked no subscriber
NotSeen == [called |-> FALSE, todos |-> <<>>, nextId |-> 0, store |-> EmptyStore]

\* a subscriber that leaves TodoApp.todos as it was
unrefreshed(v, ts, calls) == v

\* TodoApp's subscriber: this.todos = [...this.model.todos], if it was called
refreshed(v, ts, calls) ==
    IF \E i \in DOMAIN calls : calls[i] = AppListener THEN ts ELSE v

\* a todo-item as its constructor leaves it
NewItem ==
    [at |-> 0, isEditing |-> FALSE, editValue |-> <<>>, handler |-> "none", was |-> FALSE]

\* todo-list renders one todo-item per task of the list it is given, by
\* position: the element stays while the list is long enough for its place
rendered(it, v) ==
    IF it.at > Len(v) THEN NewItem ELSE [it EXCEPT !.handler = "none", !.was = FALSE]

\* notify() called before save()
NotifyEarly(calls, nid) ==
    /\ seen' = IF calls = <<>> THEN NotSeen
               ELSE [called |-> TRUE, todos |-> todos', nextId |-> nid, store |-> store]
    /\ view' = refreshed(view, todos', calls)

\* this.notify() as the last statement of a mutating method: the listeners
\* calls find the list, the counter and the store as the method has left them
Notify(calls, nid) ==
    /\ seen' = IF calls = <<>> THEN NotSeen
               ELSE [called |-> TRUE, todos |-> todos', nextId |-> nid, store |-> store']
    /\ view' = refreshed(view, todos', calls)

NotTwice == [armed |-> FALSE, again |-> FALSE, todos |-> <<>>]

\* new TodoApp() on an empty store: a TodoModel with todos = [], nextId = 1
\* and the app's listener
Started ==
    /\ store = EmptyStore
    /\ todos = StorageLoad(EmptyStore, "items", <<>>)
    /\ nextId = StorageLoad(EmptyStore, "nextId", 1)
    /\ listeners = subscribe(<<>>, AppListener)
    /\ clock = 0
    /\ fromEmpty = TRUE
    /\ issued = <<>>
    /\ last = [op |-> "constructor", id |-> 0, text |-> <<>>, todos |-> <<>>, nextId |-> 1,
               store |-> EmptyStore, saves |-> 0, calls |-> <<>>, raised |-> FALSE]
    /\ twice = NotTwice
    /\ wrote = <<>>
    /\ call = NoCall
    /\ seen = NotSeen
    /\ view = todos
    /\ other = [todos |-> StorageLoad(EmptyStore, "items", <<>>),
                nextId |-> StorageLoad(EmptyStore, "nextId", 1),
                view |-> <<>>, issued |-> <<>>, fromEmpty |-> TRUE, switches |-> 0]
    /\ todoItem = NewItem
    /\ latest = [k \in AllKeys |-> Unwritten]

\* a store that takes every write
Init == Started /\ faults = 0

\* a store that may refuse up to MaxFailures writes
InitFaulty == Started /\ faults = MaxFailures

\* new TodoApp() on the store as it is now (a page reload): a new TodoModel
\* loaded from the store, with the app's listener
Construct ==
    /\ UNCHANGED <<call, other>>
    /\ todos' = StorageLoad(store, "items", <<>>)
    /\ nextId' = StorageLoad(store, "nextId", 1)
    /\ listeners' = subscribe(<<>>, AppListener)
    /\ fromEmpty' = (\A k \in StoreKeys : ~store[k].present)
    /\ issued' = <<>>
    /\ last' = Called("constructor", 0, <<>>, 0, <<>>)
    /\ seen' = NotSeen
    /\ view' = todos'
    /\ twice' = NotTwice
    /\ UNCHANGED <<store, faults, clock>>
    /\ NotSaved
    /\ todoItem' = rendered(todoItem, view')

addTodo(text) ==
    /\ UNCHANGED <<call, other>>
    /\ twice' = NotTwice
    /\ UNCHANGED <<listeners, fromEmpty>>
    /\ IF trimThrows(text)
       THEN /\ last' = Threw("addTodo", 0, text)
            /\ Notify(<<>>, nextId)
            /\ UNCHANGED <<todos, nextId, store, faults, clock, issued>>
            /\ NotSaved
       ELSE IF falsy(text) \/ isBlank(text)
       THEN /\ last' = Called("addTodo", 0, text, 0, <<>>)
            /\ Notify(<<>>, nextId)
            /\ UNCHANGED <<todos, nextId, store, faults, clock, issued>>
            /\ NotSaved
       ELSE /\ Len(todos) < MaxTodos
            /\ nextId <= MaxId
            /\ todos' = Append(todos, newTodo(postIncrement(nextId).value, text, clock))
            /\ nextId' = postIncrement(nextId).next
            /\ clock' = clock + 1
            /\ issued' = Append(issued, postIncrement(nextId).value)
            /\ Saved(todos', nextId')
            /\ last' = Called("addTodo", 0, text, 2, notify(listeners))
            /\ Notify(notify(listeners), nextId')
    /\ todoItem' = rendered(todoItem, view')

\* toggleComplete with save and notify outside the if
toggleCompleteSavingAnyway(id) ==
    /\ UNCHANGED <<call, other>>
    /\ twice' = NotTwice
    /\ UNCHANGED <<nextId, listeners, clock, fromEmpty, issued>>
    /\ todos' = IF find(todos, id) # 0 THEN toggled(todos, find(todos, id)) ELSE todos
    /\ Saved(todos', nextId)
    /\ last' = Called("toggleComplete", id, <<>>, 2, notify(listeners))
    /\ Notify(notify(listeners), nextId)
    /\ todoItem' = rendered(todoItem, view')

toggleComplete(id) ==
    /\ UNCHANGED <<call, other>>
    /\ twice' = IF last.op = "toggleComplete" /\ last.id = id
                THEN [armed |-> TRUE, again |-> FALSE, todos |-> last.todos]
                ELSE NotTwice
    /\ UNCHANGED <<nextId, listeners, clock, fromEmpty, issued>>
    /\ IF find(todos, id) # 0
       THEN /\ todos' = toggled(todos, find(todos, id))
            /\ Saved(todos', nextId)
            /\ last' = Called("toggleComplete", id, <<>>, 2, notify(listeners))
            /\ Notify(notify(listeners), nextId)
       ELSE /\ last' = Called("toggleComplete", id, <<>>, 0, <<>>)
            /\ Notify(<<>>, nextId)
            /\ UNCHANGED <<todos, store, faults>>
            /\ NotSaved
    /\ todoItem' = rendered(todoItem, view')

deleteTodo(id) ==
    /\ UNCHANGED <<call, other>>
    /\ todos' = withoutId(todos, id)
    /\ Saved(todos', nextId)
    /\ last' = Called("deleteTodo", id, <<>>, 2, notify(listeners))
    /\ Notify(notify(listeners), nextId)
    /\ twice' = IF last.op = "deleteTodo" /\ last.id = id
                THEN [armed |-> FALSE, again |-> TRUE, todos |-> last.todos]
                ELSE NotTwice
    /\ UNCHANGED <<nextId, listeners, clock, fromEmpty, issued>>
    /\ todoItem' = rendered(todoItem, view')

updateTodo(id, newText) ==
    /\ UNCHANGED <<call, other>>
    /\ twice' = NotTwice
    /\ UNCHANGED <<nextId, listeners, clock, fromEmpty, issued>>
    /\ IF find(todos, id) # 0 /\ trimThrows(newText)
       THEN /\ last' = Threw("updateTodo", id, newText)
            /\ Notify(<<>>, nextId)
            /\ UNCHANGED <<todos, store, faults>>
            /\ NotSaved
       ELSE IF find(todos, id) # 0 /\ ~falsy(newText) /\ ~isBlank(newText)
       THEN /\ todos' = retexted(todos, find(todos, id), newText)
            /\ Saved(todos', nextId)
            /\ last' = Called("updateTodo", id, newText, 2, notify(listeners))
            /\ Notify(notify(listeners), nextId)
       ELSE /\ last' = Called("updateTodo", id, newText, 0, <<>>)
            /\ Notify(<<>>, nextId)
            /\ UNCHANGED <<todos, store, faults>>
            /\ NotSaved

clearCompleted ==
    /\ UNCHANGED <<call, other>>
    /\ todos' = withoutCompleted(todos)
    /\ Saved(todos', nextId)
    /\ last' = Called("clearCompleted", 0, <<>>, 2, notify(listeners))
    /\ Notify(notify(listeners), nextId)
    /\ twice' = NotTwice
    /\ UNCHANGED <<nextId, listeners, clock, fromEmpty, issued>>
    /\ todoItem' = rendered(todoItem, view')

\* clearAll that also sets nextId back to 1
clearAllResetting ==
    /\ UNCHANGED <<call, other>>
    /\ todos' = <<>>
    /\ nextId' = 1
    /\ Saved(todos', nextId')
    /\ last' = Called("clearAll", 0, <<>>, 2, notify(listeners))
    /\ Notify(notify(listeners), nextId')
    /\ twice' = NotTwice
    /\ UNCHANGED <<listeners, clock, fromEmpty, issued>>
    /\ todoItem' = rendered(todoItem, view')

clearAll ==
    /\ UNCHANGED <<call, other>>
    /\ todos' = <<>>
    /\ Saved(todos', nextId)
    /\ last' = Called("clearAll", 0, <<>>, 2, notify(listeners))
    /\ Notify(notify(listeners), nextId)
    /\ twice' = NotTwice
    /\ UNCHANGED <<nextId, listeners, clock, fromEmpty, issued>>
    /\ todoItem' = rendered(todoItem, view')

Next ==
    \/ \E text \in Texts : addTodo(text)
    \/ \E id \in Ids : toggleComplete(id)
    \/ \E id \in Ids : deleteTodo(id)
    \/ \E id \in Ids, newText \in Texts :
           updateTodo(id, newText) /\ todoItem' = rendered(todoItem, view')
    \/ clearCompleted
    \/ clearAll

\* one page session: a TodoModel over a store that starts empty and takes
\* every write
Spec == Init /\ [][Next]_vars

NextOrReload == Next \/ Construct

\* page sessions one after the other over a store that takes every write
Restarts == Init /\ [][NextOrReload]_vars

\* model.subscribe(listener)
Subscribe(listener) ==
    /\ UNCHANGED <<call, other>>
    /\ Len(listeners) < MaxListeners
    /\ listeners' = subscribe(listeners, listener)
    /\ last' = Called("subscribe", 0, <<>>, 0, <<>>)
    /\ Notify(<<>>, nextId)
    /\ twice' = NotTwice
    /\ UNCHANGED <<todos, nextId, store, faults, clock, fromEmpty, issued>>
    /\ NotSaved
    /\ todoItem' = rendered(todoItem, view')

\* a read of the activeCount and completedCount getters
Count ==
    /\ UNCHANGED <<call, other>>
    /\ last' = Called("count", activeCount + completedCount, <<>>, 0, <<>>)
    /\ Notify(<<>>, nextId)
    /\ twice' = NotTwice
    /\ UNCHANGED <<todos, nextId, listeners, store, faults, clock, fromEmpty, issued>>
    /\ NotSaved
    /\ todoItem' = rendered(todoItem, view')

\* the calls any code holding the model may make: further subscriptions, and
\* any value as text
NextCall ==
    \/ \E listener \in Listeners : Subscribe(listener)
    \/ Count
    \/ \E text \in Values : addTodo(text)
    \/ \E id \in Ids : toggleComplete(id)
    \/ \E id \in Ids : deleteTodo(id)
    \/ \E id \in Ids, newText \in Values :
           updateTodo(id, newText) /\ todoItem' = rendered(todoItem, view')
    \/ clearCompleted
    \/ clearAll

Callers == Init /\ [][NextCall]_vars

\* page sessions one after the other, each constructing its TodoModel over
\* the store the last one left, with a store that may refuse writes
Reloads == InitFaulty /\ [][NextOrReload]_vars

----------------------------------------------------------------------------
(* StorageService called directly *)

\* the prefixes of new StorageService() and new StorageService('')
Prefixes == {<<prefix>>, <<>>}

\* the keys a StorageService with prefix pre reaches in the store
KeysOf(pre) == {key \in AllKeys \cup {<<"items">>, <<"nextId">>} : pre \o key \in AllKeys}

\* the key under which arrays are saved; the other keys hold numbers
holdsArray(key) == key # <<>> /\ key[Len(key)] = "items"

\* the values handed to save
SavedArrays ==
    {<<newTodo(1, <<"a">>, 0)>>,
     <<[newTodo(1, <<"a">>, 0) EXCEPT !.completed = TRUE], newTodo(2, <<"a", "a">>, 1)>>}

SavedNumbers == {1, 2}

ValuesFor(key) == IF holdsArray(key) THEN SavedArrays ELSE SavedNumbers

\* the defaultValue handed to load
DefaultFor(key) == IF holdsArray(key) THEN <<>> ELSE 0

\* JSON.stringify(data), for the value saved under key
stringify(key, data) ==
    IF holdsArray(key) THEN stringifyTodos(data) ELSE stringifyNumber(data)

\* the texts other code of the page may leave under a key: the empty string
\* and a truncated array
OtherTexts == {<<>>, <<"[", "{">>}

\* the orders in which storage.key(i) may enumerate the keys of the store
KeyOrders(st) ==
    LET present == {k \in AllKeys : st[k].present}
    IN  {keys \in [1..Cardinality(present) -> present] :
            \A i, j \in 1..Cardinality(present) : i # j => keys[i] # keys[j]}

\* the TodoModel is left alone
ModelIdle ==
    UNCHANGED <<todos, nextId, listeners, clock, fromEmpty, issued, last, twice, wrote,
                seen, view, other, todoItem>>

\* new StorageService(pre).save(key, value)
save(pre, key, value) ==
    \E ok \in Outcomes :
        /\ faults' = faults - (IF ok THEN 0 ELSE 1)
        /\ store' = SaveAs(pre, store, key, stringify(pre \o key, value), ok)
        /\ latest' = Noted(latest, pre, pre \o key, value, ok)
        /\ call' = [op |-> "save", pre |-> pre, key |-> key, value |-> value,
                    result |-> value, ok |-> ok, store |-> store]
        /\ ModelIdle

\* a load whose catch removes the item it could not read
loadRepairing(pre, key, defaultValue) ==
    /\ call' = [op |-> "load", pre |-> pre, key |-> key, value |-> defaultValue,
                result |-> LoadAs(pre, store, key, defaultValue),
                ok |-> TRUE, store |-> store]
    /\ store' = IF store[pre \o key].present /\ ~parses(store[pre \o key].text)
                THEN removeItem(store, pre \o key)
                ELSE store
    /\ UNCHANGED <<faults, latest>>
    /\ ModelIdle

\* new StorageService(pre).load(key, defaultValue)
load(pre, key, defaultValue) ==
    /\ call' = [op |-> "load", pre |-> pre, key |-> key, value |-> defaultValue,
                result |-> LoadAs(pre, store, key, defaultValue),
                ok |-> TRUE, store |-> store]
    /\ UNCHANGED <<store, faults, latest>>
    /\ ModelIdle

\* new StorageService(pre).remove(key)
remove(pre, key) ==
    /\ store' = RemoveAs(pre, store, key)
    /\ latest' = [latest EXCEPT ![pre \o key] = Unwritten]
    /\ call' = [op |-> "remove", pre |-> pre, key |-> key, value |-> <<>>,
                result |-> <<>>, ok |-> TRUE, store |-> store]
    /\ UNCHANGED faults
    /\ ModelIdle

\* new StorageService(pre).clear()
clear(pre) ==
    \E keys \in KeyOrders(store) :
        /\ store' = ClearAs(pre, store, keys)
        /\ latest' = [k \in AllKeys |-> IF store'[k].present THEN latest[k] ELSE Unwritten]
        /\ call' = [op |-> "clear", pre |-> pre, key |-> <<>>, value |-> <<>>,
                    result |-> <<>>, ok |-> TRUE, store |-> store]
        /\ UNCHANGED faults
        /\ ModelIdle

\* localStorage.setItem(key, text) by other code of the page
otherSetItem(key, text) ==
    /\ store' = setItem(store, key, text)
    /\ latest' = [latest EXCEPT ![key] = OtherWritten]
    /\ call' = [op |-> "setItem", pre |-> <<>>, key |-> key, value |-> text,
                result |-> <<>>, ok |-> TRUE, store |-> store]
    /\ UNCHANGED faults
    /\ ModelIdle

NextService ==
    \/ \E pre \in Prefixes : \E key \in KeysOf(pre) :
           \E value \in ValuesFor(pre \o key) : save(pre, key, value)
    \/ \E pre \in Prefixes : \E key \in KeysOf(pre) :
           load(pre, key, DefaultFor(pre \o key))
    \/ \E pre \in Prefixes : \E key \in KeysOf(pre) : remove(pre, key)
    \/ \E pre \in Prefixes : clear(pre)
    \/ \E key \in AllKeys, text \in OtherTexts : otherSetItem(key, text)

\* StorageService instances with the default and with the empty prefix over
\* one store, which may refuse writes and which other code writes too
Services == InitFaulty /\ [][NextService]_vars

----------------------------------------------------------------------------
(* TodoApp's import *)

\* the methods and getters class TodoModel defines
TodoModelMethods ==
    {"constructor", "subscribe", "notify", "addTodo", "toggleComplete", "deleteTodo",
     "updateTodo", "clearCompleted", "clearAll", "activeCount", "completedCount", "save"}

\* the text of the files a user may pick: exported task lists, and a file
\* that is no JSON
Files == {stringifyTodos(ts) : ts \in SavedArrays} \cup {<<"[", "{">>}

ImportSucceeded == "Tasks imported successfully!"

ImportFailed == "Import failed: Invalid JSON file."

NoAlert == ""

\* reader.onload of TodoApp._handleFileImport: JSON.parse of the file,
\* confirm, this.model.importTasks(importedTasks), all inside a try whose
\* catch alerts ImportFailed. Calling a method the model does not define
\* throws TypeError inside that try, before anything is changed.
handleFileImport(content, confirmed) ==
    /\ call' = [op |-> "import", pre |-> <<>>, key |-> <<>>, value |-> content,
                result |-> IF ~parses(content) THEN ImportFailed
                           ELSE IF ~confirmed THEN NoAlert
                           ELSE IF "importTasks" \in TodoModelMethods THEN ImportSucceeded
                           ELSE ImportFailed,
                ok |-> confirmed, store |-> EmptyStore]
    /\ last' = Called("import", 0, <<>>, 0, <<>>)
    /\ Notify(<<>>, nextId)
    /\ todoItem' = rendered(todoItem, view')
    /\ UNCHANGED other
    /\ twice' = NotTwice
    /\ NotSaved
    /\ UNCHANGED <<todos, nextId, listeners, store, faults, clock, fromEmpty, issued>>

NextOrImport ==
    \/ Next
    \/ \E content \in Files, confirmed \in BOOLEAN : handleFileImport(content, confirmed)

\* one page session in which the user also imports files
Imports == Init /\ [][NextOrImport]_vars

----------------------------------------------------------------------------
(* Properties *)

\* the positions of s that hold something other than a space
NonSpaces(s) == {i \in DOMAIN s : s[i] # " "}

\* s without its leading and trailing spaces
Stripped(s) ==
    IF NonSpaces(s) = {} THEN <<>>
    ELSE LET lo == CHOOSE i \in NonSpaces(s) : \A j \in NonSpaces(s) : i <= j
             hi == CHOOSE i \in NonSpaces(s) : \A j \in NonSpaces(s) : j <= i
         IN  SubSeq(s, lo, hi)

HasId(ts, id) == \E i \in DOMAIN ts : ts[i].id = id

\* the position of the task find returns: the first one with that id
FirstWithId(ts, id) ==
    CHOOSE i \in DOMAIN ts : ts[i].id = id /\ \A j \in 1..(i - 1) : ts[j].id # id

\* the k-th smallest member of a set of positions
Nth(S, k) == CHOOSE i \in S : Cardinality({j \in S : j <= i}) = k

\* C1: addTodo of a text that is non-empty after trimming appends one task
\* at the end, with id = nextId before the call, the trimmed text and
\* completed = FALSE, adds one to nextId and leaves the earlier tasks as and
\* where they were.
C1_AddTodoAppends ==
    (last.op = "addTodo" /\ Stripped(last.text) # <<>>) =>
        /\ Len(todos) = Len(last.todos) + 1
        /\ SubSeq(todos, 1, Len(last.todos)) = last.todos
        /\ todos[Len(todos)].id = last.nextId
        /\ todos[Len(todos)].text = Stripped(last.text)
        /\ todos[Len(todos)].completed = FALSE
        /\ nextId = last.nextId + 1

C1_Witness ==
    /\ last.op = "addTodo"
    /\ Stripped(last.text) # <<>>
    /\ Stripped(last.text) # last.text
    /\ last.todos # <<>>
    /\ Len(todos) = Len(last.todos) + 1

\* C2: addTodo of an empty or whitespace-only text changes nothing: the
\* list, nextId and the store are as before, nothing was saved and no
\* subscriber was called.
C2_AddBlankIsNoOp ==
    (last.op = "addTodo" /\ Stripped(last.text) = <<>>) =>
        /\ todos = last.todos
        /\ nextId = last.nextId
        /\ store = last.store
        /\ last.saves = 0
        /\ last.calls = <<>>

C2_Witness ==
    /\ last.op = "addTodo"
    /\ last.text # <<>>
    /\ Stripped(last.text) = <<>>
    /\ listeners # <<>>
    /\ todos # <<>>

\* C3: the ids one model instance issues are strictly increasing, whatever
\* deletions and clears happen between the adds.
C3_IssuedIdsIncrease ==
    \A i, j \in DOMAIN issued : i < j => issued[i] < issued[j]

C3_Witness ==
    /\ last.op = "addTodo"
    /\ Len(issued) >= 2
    /\ last.todos = <<>>
    /\ Len(todos) = 1

\* C4: a model constructed over an empty store never holds two tasks with
\* the same id.
C4_UniqueIds ==
    fromEmpty => \A i, j \in DOMAIN todos : i # j => todos[i].id # todos[j].id

C4_Witness ==
    /\ fromEmpty
    /\ Len(todos) >= 2
    /\ last.op = "addTodo"
    /\ Len(todos) = Len(last.todos) + 1

\* C5: nextId is above every id this model issued, and a model constructed
\* on the store that earlier operations left has nextId above every id of
\* the list it loaded.
C5_NextIdAboveAllIds ==
    /\ \A i \in DOMAIN issued : issued[i] < nextId
    /\ last.op = "constructor" => \A i \in DOMAIN todos : todos[i].id < nextId

\* C6: two toggleComplete calls in a row on an id of the list give back the
\* list the first call started from.
C6_ToggleTwiceRestores ==
    (twice.armed /\ HasId(twice.todos, last.id)) => todos = twice.todos

C6_Witness ==
    /\ twice.armed
    /\ HasId(twice.todos, last.id)
    /\ todos # last.todos
    /\ Len(todos) >= 2

\* C7: toggleComplete of an id that is not in the list changes nothing: the
\* list, nextId and the store are as before, nothing was saved and no
\* subscriber was called.
C7_ToggleMissingIsNoOp ==
    (last.op = "toggleComplete" /\ ~HasId(last.todos, last.id)) =>
        /\ todos = last.todos
        /\ nextId = last.nextId
        /\ store = last.store
        /\ last.saves = 0
        /\ last.calls = <<>>

C7_Witness ==
    /\ last.op = "toggleComplete"
    /\ ~HasId(last.todos, last.id)
    /\ listeners # <<>>
    /\ todos # <<>>

\* C8: activeCount + completedCount is the length of the list.
C8_CountsAddUp ==
    /\ activeCount + completedCount = Len(todos)
    /\ activeCount = Cardinality({i \in DOMAIN todos : todos[i].completed = FALSE})
    /\ completedCount = Cardinality({i \in DOMAIN todos : todos[i].completed = TRUE})

C8_Witness ==
    /\ activeCount >= 1
    /\ completedCount >= 1

\* C9: updateTodo puts the trimmed new text in the task with that id when
\* the task exists and the new text is non-empty after trimming, and leaves
\* every task's text alone otherwise.
C9_UpdateTodo ==
    last.op = "updateTodo" =>
        /\ Len(todos) = Len(last.todos)
        /\ IF HasId(last.todos, last.id) /\ Stripped(last.text) # <<>>
           THEN \A i \in DOMAIN todos :
                    todos[i] = IF i = FirstWithId(last.todos, last.id)
                               THEN [last.todos[i] EXCEPT !.text = Stripped(last.text)]
                               ELSE last.todos[i]
           ELSE \A i \in DOMAIN todos : todos[i].text = last.todos[i].text

C9_Witness ==
    /\ last.op = "updateTodo"
    /\ HasId(last.todos, last.id)
    /\ Stripped(last.text) # <<>>
    /\ Stripped(last.text) # last.text
    /\ todos # last.todos
    /\ Len(todos) >= 2

\* C10: after clearCompleted no task is completed and the list is the tasks
\* that were not completed before, unchanged and in their earlier order;
\* with no completed task the list is unchanged.
C10_ClearCompleted ==
    last.op = "clearCompleted" =>
        LET kept == {i \in DOMAIN last.todos : ~last.todos[i].completed}
        IN  /\ completedCount = 0
            /\ Len(todos) = Cardinality(kept)
            /\ \A k \in DOMAIN todos : todos[k] = last.todos[Nth(kept, k)]
            /\ kept = DOMAIN last.todos => todos = last.todos

C10_Witness ==
    /\ last.op = "clearCompleted"
    /\ Len(last.todos) >= 2
    /\ last.todos[1].completed
    /\ Len(todos) >= 1

\* C11: deleteTodo removes the task with the id and keeps the others as
\* and where they were; with the id not in the list the list is unchanged,
\* yet the store is written and the subscribers are called, so a second
\* deleteTodo of the same id leaves the state the first one left.
C11_DeleteTodo ==
    last.op = "deleteTodo" =>
        LET kept == {i \in DOMAIN last.todos : last.todos[i].id # last.id}
        IN  /\ Len(todos) = Cardinality(kept)
            /\ \A k \in DOMAIN todos : todos[k] = last.todos[Nth(kept, k)]
            /\ ~HasId(last.todos, last.id) => todos = last.todos
            /\ last.saves = 2
            /\ store[ItemsKey] = [present |-> TRUE, text |-> stringifyTodos(todos)]
            /\ store[NextIdKey] = [present |-> TRUE, text |-> stringifyNumber(nextId)]
            /\ last.calls = listeners
            /\ listeners # <<>>
            /\ twice.again =>
                   /\ todos = last.todos
                   /\ nextId = last.nextId
                   /\ store = last.store

C11_Witness ==
    /\ last.op = "deleteTodo"
    /\ twice.again
    /\ HasId(twice.todos, last.id)
    /\ ~HasId(last.todos, last.id)
    /\ todos # <<>>

\* the operations that change the list
Mutating == {"addTodo", "toggleComplete", "deleteTodo", "updateTodo",
             "clearCompleted", "clearAll"}

\* the calls whose guard lets them through: a non-blank text for addTodo, an
\* id in the list for toggleComplete, both for updateTodo
Accepted ==
    CASE last.op = "addTodo" -> isString(last.text) /\ Stripped(last.text) # <<>>
      [] last.op = "toggleComplete" -> HasId(last.todos, last.id)
      [] last.op = "updateTodo" ->
            /\ HasId(last.todos, last.id)
            /\ isString(last.text)
            /\ Stripped(last.text) # <<>>
      [] OTHER -> last.op \in {"deleteTodo", "clearCompleted", "clearAll"}

\* the subscriptions up to the first whose callback throws
UpToFirstThrow(ls) ==
    IF \E i \in DOMAIN ls : ls[i] = "throws"
    THEN SubSeq(ls, 1, CHOOSE i \in DOMAIN ls :
                           ls[i] = "throws" /\ \A j \in 1..(i - 1) : ls[j] # "throws")
    ELSE ls

\* C12 as stated: every call to a mutating operation calls every subscriber
\* once, no-ops included.
C12_EveryCallNotifies ==
    last.op \in Mutating => last.calls = listeners

\* C12: a mutating call that passes its guard (every deleteTodo,
\* clearCompleted and clearAll; addTodo with a non-blank text; toggleComplete
\* and updateTodo with an id in the list) calls the subscribers once per
\* subscription, in subscription order, up to the first that throws; a call
\* its guard rejects calls none.
C12_AcceptedCallsNotify ==
    last.op \in Mutating =>
        last.calls = IF Accepted THEN UpToFirstThrow(listeners) ELSE <<>>

C12_Witness ==
    /\ last.op = "deleteTodo"
    /\ ~HasId(last.todos, last.id)
    /\ listeners = <<"app", "returns", "returns">>
    /\ last.calls = listeners

\* C15: no operation of the model raises an error to its caller.
C15_NeverRaises == ~last.raised

\* C13: while every write succeeds the store holds the state in memory: a
\* call that saved leaves the JSON of the list and of nextId under the two
\* keys, and a model constructed on the store has the tasks (ids, texts,
\* completed, order) and the nextId of the model before it.
C13_StoreHoldsState ==
    /\ last.saves = 2 =>
           /\ store[ItemsKey] = [present |-> TRUE, text |-> stringifyTodos(todos)]
           /\ store[NextIdKey] = [present |-> TRUE, text |-> stringifyNumber(nextId)]
    /\ last.op = "constructor" =>
           /\ todos = last.todos
           /\ nextId = last.nextId

C13_Witness ==
    /\ last.op = "constructor"
    /\ Len(todos) = 2
    /\ todos[1].completed
    /\ ~todos[2].completed
    /\ nextId = todos[2].id + 1

\* C14: a model constructed on a store without the two keys has an empty
\* list and nextId = 1; constructed on a store that holds them it has the
\* list and the nextId whose JSON the store holds.
C14_ConstructorLoads ==
    last.op = "constructor" =>
        /\ IF store[ItemsKey].present
           THEN stringifyTodos(todos) = store[ItemsKey].text
           ELSE todos = <<>>
        /\ IF store[NextIdKey].present
           THEN stringifyNumber(nextId) = store[NextIdKey].text
           ELSE nextId = 1

C14_Witness ==
    /\ last.op = "constructor"
    /\ store[ItemsKey].present
    /\ store[NextIdKey].present
    /\ todos # <<>>
    /\ nextId > 1

\* a call whose save had a setItem throw
WriteFailed == wrote # <<>> /\ (~wrote[1] \/ ~wrote[2])

\* what the last call, if accepted, must have done to the list in memory
Applied ==
    CASE last.op = "addTodo" ->
            /\ Len(todos) = Len(last.todos) + 1
            /\ todos[Len(todos)].text = Stripped(last.text)
            /\ nextId = last.nextId + 1
      [] last.op = "toggleComplete" ->
            todos[FirstWithId(todos, last.id)].completed
                = ~last.todos[FirstWithId(last.todos, last.id)].completed
      [] last.op = "updateTodo" ->
            todos[FirstWithId(todos, last.id)].text = Stripped(last.text)
      [] last.op = "deleteTodo" -> ~HasId(todos, last.id)
      [] last.op = "clearCompleted" -> \A i \in DOMAIN todos : ~todos[i].completed
      [] last.op = "clearAll" -> todos = <<>>
      [] OTHER -> FALSE

\* C16: when a write fails, save raises nothing and leaves the value stored
\* under that key as it was, and the model goes on as if the write had
\* succeeded: the list and nextId in memory are updated and the subscribers
\* are called.
C16_FailedWriteIsSilent ==
    WriteFailed =>
        /\ ~last.raised
        /\ ~wrote[1] => store[ItemsKey] = last.store[ItemsKey]
        /\ ~wrote[2] => store[NextIdKey] = last.store[NextIdKey]
        /\ wrote[1] => store[ItemsKey].text = stringifyTodos(todos)
        /\ wrote[2] => store[NextIdKey].text = stringifyNumber(nextId)
        /\ Applied
        /\ last.calls = listeners
        /\ listeners # <<>>

C16_Witness ==
    /\ wrote = <<TRUE, FALSE>>
    /\ last.op = "addTodo"
    /\ last.store[NextIdKey].present
    /\ Len(todos) = 2

\* the key of the store the last StorageService call was about
CallKey == call.pre \o call.key

\* C17: load raises nothing; it returns defaultValue when the key is absent
\* or holds text that cannot be deserialized, and otherwise the value whose
\* JSON the key holds; it leaves the store as it was.
C17_Load ==
    call.op = "load" =>
        /\ store = call.store
        /\ IF store[CallKey].present /\ store[CallKey].text \notin OtherTexts
           THEN stringify(CallKey, call.result) = store[CallKey].text
           ELSE call.result = call.value

C17_Witness ==
    /\ call.op = "load"
    /\ store[CallKey].present
    /\ store[CallKey].text = <<"[", "{">>
    /\ call.result = call.value

\* C18 as stated: a load that follows a save of the key returns the value
\* handed to that save.
C18_SaveThenLoad ==
    (call.op = "load" /\ latest[CallKey].asked # "none") =>
        call.result = latest[CallKey].handed

\* C18: nothing is cached: a load returns the value stored last under
\* prefix + key by a save whose write succeeded, whichever instance made
\* it; a save whose write fails leaves load answering as before.
C18_LoadReturnsLastStored ==
    (call.op = "load" /\ latest[CallKey].kind = "saved") =>
        call.result = latest[CallKey].value

C18_Witness ==
    /\ call.op = "load"
    /\ latest[CallKey].kind = "saved"
    /\ latest[CallKey].asked = "taken"
    /\ latest[CallKey].by # call.pre
    /\ call.result = latest[CallKey].value
    /\ call.result # call.value

\* C19: clear removes every key of the store that starts with the prefix
\* of the instance, and leaves every other key and its value as they were.
C19_Clear ==
    call.op = "clear" =>
        \A k \in AllKeys :
            IF startsWith(k, call.pre)
            THEN ~store[k].present
            ELSE store[k] = call.store[k]

\* C20: an import of a valid JSON task list that the user confirms replaces
\* the whole list of the model with the list of the file, persists it and
\* calls the subscribers.
C20_ImportReplaces ==
    (last.op = "import" /\ call.ok /\ parses(call.value)) =>
        /\ stringifyTodos(todos) = call.value
        /\ store[ItemsKey] = [present |-> TRUE, text |-> call.value]
        /\ call.result = ImportSucceeded

\* C21: every task of the list has a text that is a non-empty string and
\* its own trimmed form, whatever was handed to addTodo and updateTodo.
C21_TextsAreTrimmed ==
    \A i \in DOMAIN todos :
        /\ todos[i].text # <<>>
        /\ \A k \in DOMAIN todos[i].text : todos[i].text[k] \in {"a", " "}
        /\ Stripped(todos[i].text) = todos[i].text

C21_Witness ==
    /\ last.op = "updateTodo"
    /\ last.calls # <<>>
    /\ last.text = <<"a", " ">>
    /\ \E i \in DOMAIN todos : todos[i].id = last.id /\ todos[i].text = <<"a">>
    /\ Len(todos) = 2

\* the position of the task with the id in a list of distinct ids
PositionOf(ts, id) == CHOOSE i \in DOMAIN ts : ts[i].id = id

\* C22: the list is in insertion order: two tasks that are in the list
\* before and after a call keep their relative order, a task addTodo adds
\* is last, and in a model started on an empty store the ids increase along
\* the list.
C22_InsertionOrder ==
    /\ \A a, b \in Ids :
           (/\ HasId(last.todos, a) /\ HasId(last.todos, b)
            /\ HasId(todos, a) /\ HasId(todos, b)
            /\ PositionOf(last.todos, a) < PositionOf(last.todos, b))
               => PositionOf(todos, a) < PositionOf(todos, b)
    /\ (last.op = "addTodo" /\ last.calls # <<>>) =>
           /\ ~HasId(last.todos, todos[Len(todos)].id)
           /\ SubSeq(todos, 1, Len(todos) - 1) = last.todos
    /\ \A i, j \in DOMAIN todos : i < j => todos[i].id < todos[j].id

C22_Witness ==
    /\ last.op = "toggleComplete"
    /\ Len(last.todos) = 2
    /\ last.id = last.todos[1].id
    /\ Len(todos) = 2
    /\ todos[1].id = last.id
    /\ todos[1].completed

\* C25: toggleComplete changes nothing but the completed flag of the task
\* with the id, updateTodo nothing but its text: ids, createdAt, the other
\* tasks, the length and order of the list and nextId stay; and no other
\* operation changes the completed flag of a task it leaves in the list.
C25_Frame ==
    /\ last.op \in {"toggleComplete", "updateTodo"} =>
           /\ nextId = last.nextId
           /\ Len(todos) = Len(last.todos)
           /\ \A i \in DOMAIN todos :
                  /\ todos[i].id = last.todos[i].id
                  /\ todos[i].createdAt = last.todos[i].createdAt
                  /\ todos[i].id # last.id => todos[i] = last.todos[i]
                  /\ last.op = "toggleComplete" => todos[i].text = last.todos[i].text
                  /\ last.op = "updateTodo" => todos[i].completed = last.todos[i].completed
    /\ last.op # "toggleComplete" =>
           \A i \in DOMAIN todos, j \in DOMAIN last.todos :
               todos[i].id = last.todos[j].id =>
                   todos[i].completed = last.todos[j].completed

C25_Witness ==
    /\ last.op = "updateTodo"
    /\ last.calls # <<>>
    /\ Len(todos) = 2
    /\ todos[1].id = last.id
    /\ todos[1].completed
    /\ todos[1].text # last.todos[1].text
    /\ ~todos[2].completed

\* the list and the counter a new model would load from the store
PersistedItems == StorageLoad(store, "items", <<>>)

PersistedNextId == StorageLoad(store, "nextId", 1)

\* C26: the items and the nextId the store holds are consistent in every
\* state, also after a save one of whose two writes failed: the persisted
\* nextId is above every id of the persisted items.
C26_PersistedConsistent ==
    \A i \in DOMAIN PersistedItems : PersistedItems[i].id < PersistedNextId

\* C23: a mutating call changes the list in memory, then writes items and
\* nextId, then calls the subscribers: a subscriber finds in the model the
\* list and counter the call leaves, and in the store, for each write that
\* succeeded, the JSON of just that list and counter; the subscribers are
\* called within the call that caused the notification, never later.
C23_MutatePersistNotify ==
    /\ seen.called = (last.calls # <<>>)
    /\ seen.called =>
           /\ seen.todos = todos
           /\ seen.nextId = nextId
           /\ seen.store = store
           /\ wrote # <<>>
           /\ wrote[1] => seen.store[ItemsKey]
                              = [present |-> TRUE, text |-> stringifyTodos(seen.todos)]
           /\ wrote[2] => seen.store[NextIdKey]
                              = [present |-> TRUE, text |-> stringifyNumber(seen.nextId)]

C23_Witness ==
    /\ seen.called
    /\ last.op = "addTodo"
    /\ wrote = <<TRUE, TRUE>>
    /\ Len(seen.todos) = 2
    /\ seen.store # last.store

\* ---- TodoApp's handlers of the intents its child components raise ----

\* a confirm() the user declined: the handler returns without calling the
\* model
Declined(handler) ==
    /\ UNCHANGED <<todos, nextId, listeners, store, faults, clock, fromEmpty, issued,
                   call, other>>
    /\ last' = Called(handler, 0, <<>>, 0, <<>>)
    /\ Notify(<<>>, nextId)
    /\ twice' = NotTwice
    /\ NotSaved
    /\ todoItem' = rendered(todoItem, view')

handleAddTodo(text) == addTodo(text)

handleToggleTodo(id) == toggleComplete(id)

handleDeleteTodo(id) == deleteTodo(id)

handleUpdateTodo(id, text) ==
    /\ updateTodo(id, text)
    /\ todoItem' = rendered(todoItem, view')

handleClearCompleted(confirmed) ==
    IF confirmed THEN clearCompleted ELSE Declined("handleClearCompleted")

handleClearAll(confirmed) ==
    IF confirmed THEN clearAll ELSE Declined("handleClearAll")

NextIntent ==
    \/ \E text \in Texts : handleAddTodo(text)
    \/ \E id \in Ids : handleToggleTodo(id)
    \/ \E id \in Ids : handleDeleteTodo(id)
    \/ \E id \in Ids, text \in Texts : handleUpdateTodo(id, text)
    \/ \E confirmed \in BOOLEAN : handleClearCompleted(confirmed)
    \/ \E confirmed \in BOOLEAN : handleClearAll(confirmed)
    \/ Construct

\* page sessions driven through TodoApp's handlers, over a store that may
\* refuse writes
Intents == InitFaulty /\ [][NextIntent]_vars

\* the last intent left the model's list as it found it
NoOpIntent == last.todos = todos /\ last.calls = <<>> /\ last.op # "constructor"

\* C27: after TodoApp has handled any intent (add, toggle, delete, update,
\* clear completed, clear all), TodoApp.todos holds the same tasks with the
\* same field values in the same order as the model's list, also after an
\* intent the model treats as a no-op.
C27_ViewIsModelList ==
    /\ Len(view) = Len(todos)
    /\ \A i \in DOMAIN todos : view[i] = todos[i]

C27_Witness ==
    /\ NoOpIntent
    /\ last.op = "toggleComplete"
    /\ ~HasId(todos, last.id)
    /\ Len(view) = 2
    /\ view[1].completed
    /\ view = todos

\* ---- two tabs: two TodoApp instances on one store ----

\* the user turns to the other tab: its TodoModel and TodoApp.todos become
\* the ones in use, as that tab left them
SwitchTab ==
    /\ other.switches < MaxSwitches
    /\ todos' = other.todos
    /\ nextId' = other.nextId
    /\ view' = other.view
    /\ issued' = other.issued
    /\ fromEmpty' = other.fromEmpty
    /\ other' = [todos |-> todos, nextId |-> nextId, view |-> view, issued |-> issued,
                 fromEmpty |-> fromEmpty, switches |-> other.switches + 1]
    /\ last' = [Called("switch", 0, <<>>, 0, <<>>) EXCEPT !.todos = other.todos,
                                                          !.nextId = other.nextId]
    /\ seen' = NotSeen
    /\ twice' = NotTwice
    /\ UNCHANGED <<listeners, store, faults, clock, call>>
    /\ NotSaved
    /\ todoItem' = rendered(todoItem, view')

NextTab == Next \/ SwitchTab

\* two tabs opened on the empty store and used in turn; the store takes
\* every write
Tabs == Init /\ [][NextTab]_vars

\* the tasks the store holds under items
StoredTasks == {PersistedItems[i] : i \in DOMAIN PersistedItems}

\* C24: with two instances constructed on one store, a mutating call of one
\* instance leaves in the store that instance's own list and nextId,
\* whatever the other instance had stored, and the call runs as it would
\* alone: it does not raise and it notifies its subscribers (last writer
\* wins, nothing detects the conflict).
C24_LastWriterWins ==
    last.saves = 2 =>
        /\ store[ItemsKey] = [present |-> TRUE, text |-> stringifyTodos(todos)]
        /\ store[NextIdKey] = [present |-> TRUE, text |-> stringifyNumber(nextId)]
        /\ Applied
        /\ ~last.raised
        /\ last.calls = notify(listeners)

\* the lost update: the store held the other tab's list, this tab's call
\* replaced it and a task of the other tab is no longer stored
C24_Witness ==
    /\ last.saves = 2
    /\ last.op = "addTodo"
    /\ other.todos # <<>>
    /\ last.store[ItemsKey] = [present |-> TRUE, text |-> stringifyTodos(other.todos)]
    /\ \E i \in DOMAIN other.todos : other.todos[i] \notin StoredTasks

\* ---- a todo-item element and its edit mode ----

\* a handler of the element that dispatches nothing: the model, the store
\* and TodoApp.todos stay as they are
Undispatched(handler) ==
    /\ UNCHANGED <<todos, nextId, listeners, store, faults, clock, fromEmpty, issued,
                   call, other>>
    /\ last' = Called(handler, 0, <<>>, 0, <<>>)
    /\ Notify(<<>>, nextId)
    /\ twice' = NotTwice
    /\ NotSaved

\* the element after one of its handlers ran
Handled(it, handler) == [it EXCEPT !.handler = handler, !.was = todoItem.isEditing]

\* handleSave that does not trim before it tests the edit text
dispatchesUntrimmed(editValue) == editValue # <<>>

\* handleSave's test: if (this.editValue.trim())
dispatches(editValue) == trim(editValue) # <<>>

\* a click on the Edit button of the element at a place of the list; the
\* button is rendered outside edit mode and disabled on a completed task
handleEdit(at) ==
    /\ at \in DOMAIN view
    /\ ~todoItem.isEditing
    /\ ~view[at].completed
    /\ todoItem' = Handled([todoItem EXCEPT !.at = at, !.isEditing = TRUE,
                                            !.editValue = view[at].text], "handleEdit")
    /\ Undispatched("handleEdit")

\* typing in the edit input, which is rendered in edit mode only
handleInput(value) ==
    /\ todoItem.isEditing
    /\ todoItem' = Handled([todoItem EXCEPT !.editValue = value], "handleInput")
    /\ Undispatched("handleInput")

\* handleSave: update-todo goes to TodoApp.handleUpdateTodo, which calls
\* model.updateTodo(id, text) before dispatchEvent returns
Save ==
    IF dispatches(todoItem.editValue)
    THEN /\ updateTodo(view[todoItem.at].id, todoItem.editValue)
         /\ todoItem' = Handled([todoItem EXCEPT !.isEditing = FALSE], "handleSave")
    ELSE /\ Undispatched("handleSave")
         /\ todoItem' = Handled(todoItem, "handleSave")

\* handleCancel
Cancel ==
    /\ todoItem' = Handled([todoItem EXCEPT !.isEditing = FALSE, !.editValue = <<>>],
                           "handleCancel")
    /\ Undispatched("handleCancel")

\* a click on the Save button, which is rendered in edit mode only
handleSave == todoItem.isEditing /\ Save

\* a click on the Cancel button, which is rendered in edit mode only
handleCancel == todoItem.isEditing /\ Cancel

\* the keys pressed in the edit input
Keys == {"Enter", "Escape", "a"}

\* a key pressed in the edit input
handleKeyDown(key) ==
    /\ todoItem.isEditing
    /\ IF key = "Enter" THEN Save
       ELSE IF key = "Escape" THEN Cancel
       ELSE /\ todoItem' = Handled(todoItem, "handleKeyDown")
            /\ Undispatched("handleKeyDown")

NextEdit ==
    \/ Next
    \/ \E at \in 1..MaxTodos : handleEdit(at)
    \/ \E value \in Texts : handleInput(value)
    \/ handleSave
    \/ handleCancel
    \/ \E key \in Keys : handleKeyDown(key)

\* one page session in which a todo-item is edited in place
Editing == Init /\ [][NextEdit]_vars

\* the last step was the element's handleSave and it dispatched update-todo
Dispatched == todoItem.handler = "handleSave" /\ last.op = "updateTodo"

\* the last step left the model's list, the store and TodoApp.todos alone
NothingChanged == todos = last.todos /\ store = last.store /\ view = todos /\ last.saves = 0

\* C28: a todo-item dispatches update-todo only from handleSave, only in
\* edit mode and only with an edit text that is non-empty after trimming,
\* and the dispatch leaves edit mode; handleSave on a blank edit text
\* dispatches nothing and stays in edit mode; handleCancel (or Escape)
\* leaves edit mode and dispatches nothing; so a cancelled or blank edit
\* changes no task.
C28_EditMode ==
    /\ Dispatched =>
           /\ todoItem.was
           /\ Stripped(last.text) # <<>>
           /\ last.text = todoItem.editValue
           /\ last.id = view[todoItem.at].id
           /\ ~todoItem.isEditing
    /\ (todoItem.handler = "handleSave" /\ ~Dispatched) =>
           /\ last.op = "handleSave"
           /\ Stripped(todoItem.editValue) = <<>>
           /\ todoItem.isEditing
           /\ NothingChanged
    /\ todoItem.handler = "handleCancel" =>
           /\ last.op = "handleCancel"
           /\ ~todoItem.isEditing
           /\ NothingChanged
    /\ todoItem.handler \in {"handleEdit", "handleInput", "handleKeyDown"} =>
           /\ last.op = todoItem.handler
           /\ NothingChanged

\* an edit saved with text around which the user typed a space
C28_Witness ==
    /\ Dispatched
    /\ todoItem.editValue = <<"a", " ">>
    /\ todos[todoItem.at].text = <<"a">>
    /\ last.todos[todoItem.at].text = <<"a", "a">>

\* a blank edit text saved: still in edit mode, the task keeps its text
C28_BlankWitness ==
    /\ todoItem.handler = "handleSave"
    /\ last.op = "handleSave"
    /\ todoItem.editValue = <<" ">>
    /\ todoItem.isEditing
    /\ todos[todoItem.at].text = <<"a">>

====
